---- MODULE Spec2Model ----
(***************************************************************************)
(* A model of the llama-pile capture-and-analysis pipeline:                *)
(*   src/clipboard.py                    collector, bounded queue, worker  *)
(*                                       pool, agent chain, truncation     *)
(*   src/experimental/novelty_tracker.py NoveltyTracker and the best-of-3  *)
(*                                       candidate selection               *)
(*                                                                         *)
(* Python strings are TLA+ strings; characters are read with SubSeq, so    *)
(* split, strip, join and slicing are computed character by character.    *)
(*                                                                         *)
(* The specifications share the variables:                                 *)
(*   Spec         the collector thread and the content_processor threads   *)
(*   SpecChain    one query_ai traversal and truncate_content              *)
(*   SpecNovelty  the NoveltyTracker object and query_ollama's selection   *)
(*   SpecTracked  query_ai over the selector, then add_response            *)
(*   SpecBatch    process_content_batch statement by statement;            *)
(*                SpecBatchFair adds the scheduling of the workers         *)
(*   SpecShared   two workers on the one tracker, and the locks            *)
(*   SpecMain     the whole program with main, stdout and the log file     *)
(***************************************************************************)
EXTENDS Integers, Sequences, FiniteSets, TLC

VARIABLES
    \* ---- clipboard.py: collector, queue, workers ----
    last_content_hash,  \* global last_content_hash (None, or a digest)
    content_queue,      \* Queue(maxsize=max_queue_size): items, oldest first
    result_queue,       \* Queue(): (content, response) pairs, oldest first
    c_pc,               \* content_collector: where the thread stands
    c_content,          \* content_collector: its local `content`
    w_pc,               \* content_processor: where each worker stands
    batch,              \* content_processor: each worker's local `batch`
    next_id,            \* identity of the next dict object the collector builds
    chained,            \* history: per item id, the workers that ran query_ai on it
    ticks,              \* history: the last process_clipboard_content call
    dropped,            \* history: ids of items given up because the queue was full
    \* ---- clipboard.py: query_ai, truncate_content ----
    qa_pc,              \* query_ai: "idle", "loop", "returned"
    qa_content,         \* query_ai: its argument `content`
    agents_thoughts,    \* query_ai: local list agents_thoughts
    final_response,     \* query_ai: local dict final_response, insertion order
    qa_prompts,         \* history: the prompt built in each iteration
    qa_raw,             \* history: what query_ollama returned in each iteration
    qa_result,          \* query_ai: its return value
    tc_call,            \* the last truncate_content call: text, max_chars, out
    \* ---- novelty_tracker.py ----
    key_frequency,      \* NoveltyTracker.key_frequency (Counter)
    value_frequency,    \* NoveltyTracker.value_frequency (Counter)
    response_history,   \* NoveltyTracker.response_history (deque(maxlen))
    novelty_weight,     \* PERFORMANCE_CONFIG["novelty_weight"], in tenths
    n_observe,          \* history: how many add_response calls were made
    nt_last,            \* history: the last call made (query_ollama or add_response)
    \* ---- clipboard.py: process_content_batch, statement by statement ----
    w_i,                \* process_content_batch: position of `content` in the batch
    w_step,             \* query_ai: iterations of the agent loop completed
    w_calls,            \* history: query_ollama calls made by the running query_ai
    w_results,          \* process_content_batch: local list results
    q_calls,            \* history: per item id, the query_ai calls made on it
    \* ---- the threads on the tracker and the locks ----
    t_pc,               \* each worker: where it stands in query_ollama / add_response
    t_gen,              \* query_ollama: how many candidates `responses` holds
    t_todo,             \* add_response: the pairs still to be counted
    tracker_lock,       \* novelty_tracker.lock: the threads holding it
    clipboard_lock,     \* clipboard_lock: the threads holding it
    t_scored,           \* history: the last scoring of a candidate set
    \* ---- clipboard.py: main, and what the threads print and log ----
    m_pc,               \* main: where the main thread stands
    stdout,             \* the lines printed, each with the item it was printed for
    log_file,           \* the lines log_event wrote to LOG_FILE
    m_raised            \* history: the KeyboardInterrupt raised in main, if any

pipeVars == <<last_content_hash, content_queue, result_queue, c_pc, c_content,
              w_pc, batch, next_id, chained, ticks, dropped>>
chainVars == <<qa_pc, qa_content, agents_thoughts, final_response, qa_prompts,
               qa_raw, qa_result, tc_call>>
novVars == <<key_frequency, value_frequency, response_history, novelty_weight,
             n_observe, nt_last>>
batchVars == <<w_i, w_step, w_calls, w_results, q_calls>>
lockVars == <<t_pc, t_gen, t_todo, tracker_lock, clipboard_lock, t_scored>>
mainVars == <<m_pc, stdout, log_file, m_raised>>
vars == <<pipeVars, chainVars, novVars, batchVars, lockVars, mainVars>>

None == "<None>"

(***************************************************************************)
(* Python str operations, character by character.                          *)
(***************************************************************************)
Char(s, i) == SubSeq(s, i, i)

SetMin(S) == CHOOSE x \in S : \A y \in S : x <= y
SetMax(S) == CHOOSE x \in S : \A y \in S : x >= y

\* c in s, for a one-character c
Contains(s, c) == \E i \in 1..Len(s) : Char(s, i) = c

\* sub in s
IsSubstring(sub, s) ==
    \/ sub = ""
    \/ \E i \in 0..(Len(s) - Len(sub)) :
          /\ Char(s, i + 1) = Char(sub, 1)
          /\ SubSeq(s, i + 1, i + Len(sub)) = sub

\* s[start:].split(sep), 1-based start, for a one-character sep
RECURSIVE SplitFrom(_, _, _)
SplitFrom(s, sep, start) ==
    LET hits == {i \in start..Len(s) : Char(s, i) = sep}
    IN  IF hits = {} THEN <<SubSeq(s, start, Len(s))>>
        ELSE LET j == SetMin(hits)
             IN  <<SubSeq(s, start, j - 1)>> \o SplitFrom(s, sep, j + 1)

\* s.split(sep)
Split(s, sep) == SplitFrom(s, sep, 1)

Whitespace == {" ", "\t", "\n", "\r", "\f"}

\* s.strip()
Strip(s) ==
    LET keep == {i \in 1..Len(s) : Char(s, i) \notin Whitespace}
    IN  IF keep = {} THEN "" ELSE SubSeq(s, SetMin(keep), SetMax(keep))

\* sep.join(parts)
RECURSIVE Join(_, _)
Join(parts, sep) ==
    IF parts = <<>> THEN ""
    ELSE IF Len(parts) = 1 THEN parts[1]
    ELSE parts[1] \o sep \o Join(Tail(parts), sep)

\* s * n
RECURSIVE Repeat(_, _)
Repeat(s, n) == IF n = 0 THEN "" ELSE s \o Repeat(s, n - 1)

(***************************************************************************)
(* clipboard.py: truncate_content, format_previous_thoughts, query_ai      *)
(***************************************************************************)
\* the suffix truncate_content appends to a cut text
TRUNCATION_MARKER == "... [truncated]"

\* the default of truncate_content's max_chars, and the limit query_ai passes
MAX_CHARS == 512

truncate_content_keeps_tail(text, max_chars) ==
    IF Len(text) <= max_chars THEN text
    ELSE SubSeq(text, Len(text) - max_chars + 1, Len(text)) \o TRUNCATION_MARKER

truncate_content(text, max_chars) ==
    IF Len(text) <= max_chars THEN text
    ELSE SubSeq(text, 1, max_chars) \o TRUNCATION_MARKER

\* list(AGENT_CONFIG.keys()), in the dict's insertion order
AgentIds == <<"curator", "analyst", "synthesizer">>

\* AGENT_CONFIG[agent_id]["prompt_template"], cut at its one {prev_thoughts} field
TemplateHead(agent_id) ==
    CASE agent_id = "curator" ->
           "Extract key technical elements as concise key-value pairs. Rules:\n            - Each key and value should be 1-3 words maximum\n            - Focus on technical facts only\n            - Format as 'key: value'\n            \n            Example format:\n            lang: python\n            main_lib: pyperclip\n            data_store: jsonl\n            \n            Previous pairs: "
      [] agent_id = "analyst" ->
           "Map system patterns to concise key-value pairs. Rules:\n            - Each key and value should be 1-3 words maximum\n            - Focus on patterns and implications\n            - Format as 'key: value'\n            \n            Example format:\n            purpose: data collection\n            arch_type: event driven\n            risk_level: medium\n            \n            Previous pairs: "
      [] agent_id = "synthesizer" ->
           "Synthesize previous analyses into final key-value pairs. Rules:\n            - Each key and value should be 1-3 words maximum\n            - Focus on conclusions and actions\n            - Format as 'key: value'\n            \n            Example format:\n            main_strength: modular design\n            key_weakness: error handling\n            next_step: add tests\n            \n            Previous pairs: "

TemplateTail(agent_id) ==
    CASE agent_id = "curator" ->
           "\n            \n            List the key-value pairs for this content:"
      [] agent_id = "analyst" ->
           "\n            \n            List the key-value pairs for this analysis:"
      [] agent_id = "synthesizer" ->
           "\n            \n            List the key-value pairs for your synthesis:"

\* agent['prompt_template'].format(prev_thoughts=prev_thoughts)
FormatTemplate(agent_id, prev_thoughts) ==
    TemplateHead(agent_id) \o prev_thoughts \o TemplateTail(agent_id)

\* [line.strip() for line in thought.split('\n') if ':' in line]
kv_pairs(thought) ==
    LET lines == SelectSeq(Split(thought, "\n"), LAMBDA line : Contains(line, ":"))
    IN  [i \in 1..Len(lines) |-> Strip(lines[i])]

format_previous_thoughts_latest_only(thoughts) ==
    IF thoughts = <<>> THEN "no_previous: true"
    ELSE LET i == Len(thoughts)
         IN  AgentIds[i] \o ":\n" \o Join(kv_pairs(thoughts[i]), "\n")

format_previous_thoughts(thoughts) ==
    IF thoughts = <<>> THEN "no_previous: true"
    ELSE Join([i \in 1..Len(thoughts) |->
                  AgentIds[i] \o ":\n" \o Join(kv_pairs(thoughts[i]), "\n")],
              "\n")

\* the prompt query_ai builds for one agent
BuildPrompt(agent_id, content, thoughts) ==
    IF content.type = "text"
    THEN FormatTemplate(agent_id, format_previous_thoughts(thoughts))
           \o "\n\nContent to analyze:\n"
           \o truncate_content(content.content, MAX_CHARS)
    ELSE FormatTemplate(agent_id, format_previous_thoughts(thoughts))
           \o "\n\nAnalyze this screenshot: [image data]"

\* str(x) for the values the collector hashes: a str, a Path, or None
PyStr(x) == IF x = None THEN "None" ELSE x

\* hashlib.md5(str(content).encode()).hexdigest(): equal digests for equal
\* strings, and (no collision among the modelled strings) only for them
get_content_hash(content) == "md5:" \o PyStr(content)

\* the dict process_clipboard_content returns; id stands for the object's identity
Item(type, content, hash, id) ==
    [type |-> type, content |-> content, hash |-> hash, id |-> id]

\* a 600-character text of two key-value lines
LongText == "log: " \o Repeat("0123456789", 59) \o "\nk: v"

\* texts the generation backend may return
ResponseTexts ==
    { "lang: go\nlib: none",
      "Sure, here you go\nowner: alice",
      "  purpose: capture  \nrisk: low",
      "nothing to report",
      "",
      "url: http://x",
      LongText }

\* the items a query_ai traversal is run on
ChainItems ==
    { Item("text", "def f(x): return x", get_content_hash("def f(x): return x"), 0),
      Item("text", LongText, get_content_hash(LongText), 0),
      Item("image", "/assets/0f.png", get_content_hash("/shots/a.png"), 0) }

\* limits truncate_content is tried with, besides MAX_CHARS
MaxLimit == 20

QueryAiCall(content) ==
    /\ qa_pc = "idle"
    /\ tc_call = <<>>
    /\ qa_pc' = "loop"
    /\ qa_content' = <<content>>
    /\ agents_thoughts' = <<>>
    /\ final_response' = <<>>
    /\ qa_prompts' = <<>>
    /\ qa_raw' = <<>>
    /\ UNCHANGED <<qa_result, tc_call>>
    /\ UNCHANGED <<pipeVars, novVars, batchVars, lockVars>>
    /\ UNCHANGED mainVars

\* one iteration of `for agent_id, agent in AGENT_CONFIG.items()`, in which
\* query_ollama returns `response`
AgentStep(response) ==
    /\ qa_pc = "loop"
    /\ Len(agents_thoughts) < Len(AgentIds)
    /\ LET agent_id == AgentIds[Len(agents_thoughts) + 1]
           prev_thoughts == format_previous_thoughts(agents_thoughts)
           prompt == BuildPrompt(agent_id, qa_content[1], agents_thoughts)
           truncated_response == truncate_content(response, MAX_CHARS)
       IN  /\ agents_thoughts' = Append(agents_thoughts, truncated_response)
           /\ final_response' =
                  Append(final_response,
                         [agent_id |-> agent_id,
                          response |-> truncated_response,
                          previous_thoughts |-> prev_thoughts])
           /\ qa_prompts' = Append(qa_prompts, prompt)
           /\ qa_raw' = Append(qa_raw, response)
    /\ UNCHANGED <<qa_pc, qa_content, qa_result, tc_call>>
    /\ UNCHANGED <<pipeVars, novVars, batchVars, lockVars>>
    /\ UNCHANGED mainVars

\* an iteration raises (encode_image, query_ollama, save_to_dataset):
\* `except Exception` prints and query_ai returns None
AgentStepRaises ==
    /\ qa_pc = "loop"
    /\ Len(agents_thoughts) < Len(AgentIds)
    /\ qa_pc' = "returned"
    /\ qa_result' = <<None>>
    /\ UNCHANGED <<qa_content, agents_thoughts, final_response, qa_prompts,
                   qa_raw, tc_call>>
    /\ UNCHANGED <<pipeVars, novVars, batchVars, lockVars>>
    /\ UNCHANGED mainVars

\* the loop is over: return final_response
QueryAiReturn ==
    /\ qa_pc = "loop"
    /\ Len(agents_thoughts) = Len(AgentIds)
    /\ qa_pc' = "returned"
    /\ qa_result' = <<final_response>>
    /\ UNCHANGED <<qa_content, agents_thoughts, final_response, qa_prompts,
                   qa_raw, tc_call>>
    /\ UNCHANGED <<pipeVars, novVars, batchVars, lockVars>>
    /\ UNCHANGED mainVars

\* a call truncate_content(text, max_chars)
TruncateCall(text, max_chars) ==
    /\ qa_pc = "idle"
    /\ tc_call' = <<[text |-> text, max_chars |-> max_chars,
                     out |-> truncate_content(text, max_chars)]>>
    /\ UNCHANGED <<qa_pc, qa_content, agents_thoughts, final_response,
                   qa_prompts, qa_raw, qa_result>>
    /\ UNCHANGED <<pipeVars, novVars, batchVars, lockVars>>
    /\ UNCHANGED mainVars

ChainIdle ==
    /\ qa_pc = "idle"
    /\ qa_content = <<>>
    /\ agents_thoughts = <<>>
    /\ final_response = <<>>
    /\ qa_prompts = <<>>
    /\ qa_raw = <<>>
    /\ qa_result = <<>>
    /\ tc_call = <<>>

PipeIdle ==
    /\ last_content_hash = None
    /\ content_queue = <<>>
    /\ result_queue = <<>>
    /\ c_pc = "poll"
    /\ c_content = <<>>
    /\ w_pc = <<>>
    /\ batch = <<>>
    /\ next_id = 1
    /\ chained = <<>>
    /\ ticks = <<>>
    /\ dropped = {}

NovIdle ==
    /\ key_frequency = <<>>
    /\ value_frequency = <<>>
    /\ response_history = <<>>
    /\ novelty_weight = 3
    /\ n_observe = 0
    /\ nt_last = <<>>

\* no process_content_batch call under way
BatchIdle ==
    /\ w_i = <<>>
    /\ w_step = <<>>
    /\ w_calls = <<>>
    /\ w_results = <<>>
    /\ q_calls = <<>>

\* no thread on the tracker, no lock held
LockIdle ==
    /\ t_pc = <<>>
    /\ t_gen = <<>>
    /\ t_todo = <<>>
    /\ tracker_lock = {}
    /\ clipboard_lock = {}
    /\ t_scored = <<>>

\* main has not started
MainIdle ==
    /\ m_pc = "idle"
    /\ stdout = {}
    /\ log_file = {}
    /\ m_raised = <<>>

ChainInit == PipeIdle /\ ChainIdle /\ NovIdle /\ BatchIdle /\ LockIdle /\ MainIdle

\* the limits truncate_content is called with
Limits == (0..MaxLimit) \cup {MAX_CHARS}

ChainNext ==
    \/ \E content \in ChainItems : QueryAiCall(content)
    \/ \E response \in ResponseTexts : AgentStep(response)
    \/ AgentStepRaises
    \/ QueryAiReturn
    \/ \E text \in ResponseTexts, max_chars \in Limits :
           TruncateCall(text, max_chars)

SpecChain == ChainInit /\ [][ChainNext]_vars

(***************************************************************************)
(* novelty_tracker.py: NoveltyTracker and query_ollama.  Scores are exact   *)
(* fractions [n, d] in lowest terms.  The float operations of the code     *)
(* (1.0 / x, np.mean, the weighted sum) are monotone, so they never        *)
(* reverse the order of the fractions, and on the texts modelled here they *)
(* tie exactly when the fractions do.                                      *)
(***************************************************************************)
RECURSIVE GCD(_, _)
GCD(a, b) == IF b = 0 THEN a ELSE GCD(b, a % b)

Frac(n, d) == LET g == GCD(n, d) IN [n |-> n \div g, d |-> d \div g]
FracAdd(a, b) == Frac(a.n * b.d + b.n * a.d, a.d * b.d)
FracDiv(a, k) == Frac(a.n, a.d * k)
FracLess(a, b) == a.n * b.d < b.n * a.d
FracLeq(a, b) == a.n * b.d <= b.n * a.d

RECURSIVE FracSum(_)
FracSum(seq) ==
    IF seq = <<>> THEN Frac(0, 1) ELSE FracAdd(Head(seq), FracSum(Tail(seq)))

\* np.mean of a non-empty list
Mean(seq) == FracDiv(FracSum(seq), Len(seq))

\* Counter()[k]: 0 for a key never counted
Freq(counter, k) == IF k \in DOMAIN counter THEN counter[k] ELSE 0

Inc_by_zero(counter, k) ==
    [x \in (DOMAIN counter) \cup {k} |-> Freq(counter, x)]

Inc_forgets(counter, k) == [x \in {k} |-> Freq(counter, k) + 1]

\* counter[k] += 1
Inc(counter, k) ==
    [x \in (DOMAIN counter) \cup {k} |->
        IF x = k THEN Freq(counter, k) + 1 ELSE counter[x]]

\* candidate texts the generation backend may return to query_ollama
PythonText == "lang: python\nlib: pyperclip"
GoText == "lang: go\nlib: none"
PlainText == "nothing to report"
MixedText == "lang: go\nurl: http://x"
UrlText == "url: http://x"
NovelTexts == {PythonText, GoText, PlainText, MixedText}

\* dict values: a dict with a 'response', or one without
Entry(text) == [response |-> text]
NoResponseEntry == [context |-> "role"]

\* the response_dict arguments add_response is called with
ResponseDicts ==
    { <<Entry(PythonText)>>, <<Entry(GoText)>>, <<Entry(PlainText)>>,
      <<Entry(MixedText)>>, <<Entry(UrlText)>>,
      <<Entry(PythonText), Entry(GoText)>>,
      <<Entry(GoText), Entry(MixedText)>>,
      <<NoResponseEntry, Entry(GoText)>>,
      <<Entry(PythonText), Entry(PythonText), Entry(PythonText)>> }

\* what query_ollama returns when no candidate was generated
ErrorText == "Error generating response"

\* every text the tracker is given
TrackerTexts == NovelTexts \cup {UrlText, ErrorText}

\* [line.strip().split(':') for line in text.split('\n') if ':' in line]
parse_pairs(text) ==
    LET lines == SelectSeq(Split(text, "\n"), LAMBDA line : Contains(line, ":"))
    IN  [i \in 1..Len(lines) |-> Split(Strip(lines[i]), ":")]

\* parse_pairs over the texts the tracker is given, computed once
ParsedPairs == [text \in TrackerTexts |-> parse_pairs(text)]
Pairs(text) == ParsedPairs[text]

\* `for k, v in pairs` unpacks a pair only when split(':') gave two parts;
\* with more it raises ValueError
Unpacks(pair) == Len(pair) = 2

\* the pairs the loop gets through before the first one it cannot unpack
Unpacked(pairs) ==
    LET bad == {i \in 1..Len(pairs) : ~Unpacks(pairs[i])}
    IN  IF bad = {} THEN pairs ELSE SubSeq(pairs, 1, SetMin(bad) - 1)

RaisesValueError(pairs) == \E i \in 1..Len(pairs) : ~Unpacks(pairs[i])

\* k, v = k.strip(), v.strip(); counter[...] += 1 over the pairs, pos 1 for
\* the keys and 2 for the values
RECURSIVE Tally(_, _, _)
Tally(counter, pairs, pos) ==
    IF pairs = <<>> THEN counter
    ELSE Tally(Inc(counter, Strip(Head(pairs)[pos])), Tail(pairs), pos)

\* the pairs of every value of response_dict that is a dict with a 'response'
RECURSIVE DictPairs(_)
DictPairs(response_dict) ==
    IF response_dict = <<>> THEN <<>>
    ELSE (IF "response" \in DOMAIN Head(response_dict)
          THEN Pairs(Head(response_dict).response) ELSE <<>>)
         \o DictPairs(Tail(response_dict))

\* deque(maxlen=history_size).append(x)
history_size == 1

DequeAppend_unbounded(history, x) == Append(history, x)

DequeAppend(history, x) ==
    IF Len(history) < history_size THEN Append(history, x)
    ELSE Append(Tail(history), x)

\* 1.0 / (freq + 1)
pair_score_rising(freq) == Frac(freq + 1, freq + 2)

pair_score(freq) == Frac(1, freq + 1)

\* NoveltyTracker.get_novelty_score, when it returns
get_novelty_score(key_freq, value_freq, response_text) ==
    LET pairs == Pairs(response_text)
        key_scores == [i \in 1..Len(pairs) |->
                          pair_score(Freq(key_freq, Strip(pairs[i][1])))]
        value_scores == [i \in 1..Len(pairs) |->
                            pair_score(Freq(value_freq, Strip(pairs[i][2])))]
    IN  IF pairs = <<>> THEN Frac(0, 1)
        ELSE FracDiv(FracAdd(Mean(key_scores), Mean(value_scores)), 2)

\* (1 - w) * b + w * n with b = 1.0 and w = novelty_weight / 10
final_score(w, n) == Frac((10 - w) * n.d + w * n.n, 10 * n.d)

\* np.argmax: the first index holding the maximum
argmax(scores) ==
    CHOOSE i \in 1..Len(scores) :
        /\ \A j \in 1..Len(scores) : FracLeq(scores[j], scores[i])
        /\ \A j \in 1..(i - 1) : FracLess(scores[j], scores[i])

\* the index query_ollama picks when client.generate gave `generated` and
\* then, if failed, raised: np.argmax of the final scores, or, from the
\* except branch, the first response (0: there is none)
select_index(key_freq, value_freq, w, generated, failed) ==
    IF failed \/ \E i \in 1..Len(generated) : RaisesValueError(Pairs(generated[i]))
    THEN IF generated # <<>> THEN 1 ELSE 0
    ELSE argmax([i \in 1..Len(generated) |->
             final_score(w, get_novelty_score(key_freq, value_freq, generated[i]))])

\* what query_ollama returns
select_response(generated, index) ==
    IF index = 0 THEN ErrorText ELSE generated[index]

\* query_ollama generates 3 candidates
NUM_CANDIDATES == 3

\* how many add_response calls a behaviour makes
MaxObserve == 2

\* the lists client.generate has produced when scoring starts or a call raises
Generated(failed) ==
    IF failed
    THEN UNION {[1..n -> NovelTexts] : n \in 0..(NUM_CANDIDATES - 1)}
    ELSE [1..NUM_CANDIDATES -> NovelTexts]

\* the last call made on the tracker or the selector
LastOp == IF nt_last = <<>> THEN "none" ELSE nt_last[1].op

\* query_ollama(prompt): `generated` are the candidates obtained; with `failed`
\* the next client.generate call raised.  The call leaves the tracker as it
\* is, so a call right after another reaches only states the first one could
\* reach: calls in a row are taken once.
QueryOllama(generated, failed) ==
    /\ LastOp # "query_ollama"
    /\ LET index == select_index(key_frequency, value_frequency,
                                 novelty_weight, generated, failed)
       IN  nt_last' = <<[op |-> "query_ollama",
                         responses |-> generated,
                         failed |-> failed,
                         index |-> index,
                         result |-> select_response(generated, index)]>>
    /\ UNCHANGED <<key_frequency, value_frequency, response_history,
                   novelty_weight, n_observe>>
    /\ UNCHANGED <<pipeVars, chainVars, batchVars, lockVars>>
    /\ UNCHANGED mainVars

\* novelty_tracker.add_response(response_dict); on ValueError the counts made
\* so far stay and the history is not appended
AddResponse(response_dict) ==
    /\ n_observe < MaxObserve
    /\ LET pairs == DictPairs(response_dict)
       IN  /\ key_frequency' = Tally(key_frequency, Unpacked(pairs), 1)
           /\ value_frequency' = Tally(value_frequency, Unpacked(pairs), 2)
           /\ response_history' =
                  IF RaisesValueError(pairs) THEN response_history
                  ELSE DequeAppend(response_history, response_dict)
           /\ nt_last' = <<[op |-> "add_response",
                            response_dict |-> response_dict,
                            raised |-> RaisesValueError(pairs)]>>
    /\ n_observe' = n_observe + 1
    /\ UNCHANGED novelty_weight
    /\ UNCHANGED <<pipeVars, chainVars, batchVars, lockVars>>
    /\ UNCHANGED mainVars

\* novelty_weight values tried, in tenths: the configured 0.3, and 1.0
Weights == {3, 10}

NoveltyInit ==
    /\ PipeIdle
    /\ ChainIdle
    /\ key_frequency = <<>>
    /\ value_frequency = <<>>
    /\ response_history = <<>>
    /\ novelty_weight \in Weights
    /\ n_observe = 0
    /\ nt_last = <<>>
    /\ BatchIdle
    /\ LockIdle
    /\ MainIdle

NoveltyNext ==
    \/ \E failed \in BOOLEAN : \E generated \in Generated(failed) :
           QueryOllama(generated, failed)
    \/ \E response_dict \in ResponseDicts : AddResponse(response_dict)

SpecNovelty == NoveltyInit /\ [][NoveltyNext]_vars

(***************************************************************************)
(* novelty_tracker.py: query_ai, the agent loop over query_ollama followed *)
(* by novelty_tracker.add_response(final_response).  The prompt            *)
(* construction, which the file leaves out, and the 'context' of each      *)
(* entry do not reach the tracker and are left out.  The tracker is empty  *)
(* when the call starts.                                                   *)
(***************************************************************************)
\* query_ai(content): agents_thoughts = [], final_response = {}; one call is
\* followed to its return
TrackedCall(content) ==
    /\ qa_pc = "idle"
    /\ qa_pc' = "loop"
    /\ qa_content' = <<content>>
    /\ agents_thoughts' = <<>>
    /\ final_response' = <<>>
    /\ qa_raw' = <<>>
    /\ qa_result' = <<>>
    /\ UNCHANGED <<qa_prompts, tc_call>>
    /\ UNCHANGED <<pipeVars, novVars, batchVars, lockVars>>
    /\ UNCHANGED mainVars

\* one iteration of the agent loop: response = query_ollama(prompt), where
\* client.generate gave `generated` and then, if failed, raised;
\* truncate_content, agents_thoughts.append, final_response[agent_id] = ...
TrackedStep(generated, failed) ==
    /\ qa_pc = "loop"
    /\ Len(agents_thoughts) < Len(AgentIds)
    /\ LET index == select_index(key_frequency, value_frequency,
                                 novelty_weight, generated, failed)
           response == select_response(generated, index)
           truncated_response == truncate_content(response, MAX_CHARS)
       IN  /\ agents_thoughts' = Append(agents_thoughts, truncated_response)
           /\ final_response' = Append(final_response, Entry(truncated_response))
           /\ qa_raw' = Append(qa_raw, response)
           /\ nt_last' = <<[op |-> "query_ollama",
                            step |-> Len(agents_thoughts) + 1,
                            attempts |-> Len(generated),
                            failed |-> failed,
                            index |-> index,
                            result |-> response]>>
    /\ UNCHANGED <<qa_pc, qa_content, qa_prompts, qa_result, tc_call>>
    /\ UNCHANGED <<key_frequency, value_frequency, response_history,
                   novelty_weight, n_observe>>
    /\ UNCHANGED <<pipeVars, batchVars, lockVars>>
    /\ UNCHANGED mainVars

\* the loop is over: novelty_tracker.add_response(final_response), then
\* save_to_dataset and return final_response; if add_response raises,
\* `except Exception` prints and query_ai returns None
TrackedObserve ==
    /\ qa_pc = "loop"
    /\ Len(agents_thoughts) = Len(AgentIds)
    /\ LET pairs == DictPairs(final_response)
       IN  /\ key_frequency' = Tally(key_frequency, Unpacked(pairs), 1)
           /\ value_frequency' = Tally(value_frequency, Unpacked(pairs), 2)
           /\ response_history' =
                  IF RaisesValueError(pairs) THEN response_history
                  ELSE DequeAppend(response_history, final_response)
           /\ nt_last' = <<[op |-> "add_response",
                            response_dict |-> final_response,
                            raised |-> RaisesValueError(pairs)]>>
           /\ qa_result' = IF RaisesValueError(pairs) THEN <<None>>
                           ELSE <<final_response>>
    /\ n_observe' = n_observe + 1
    /\ qa_pc' = "returned"
    /\ UNCHANGED <<qa_content, agents_thoughts, final_response, qa_prompts,
                   qa_raw, tc_call, novelty_weight>>
    /\ UNCHANGED <<pipeVars, batchVars, lockVars>>
    /\ UNCHANGED mainVars

TrackedInit ==
    /\ PipeIdle
    /\ ChainIdle
    /\ BatchIdle
    /\ LockIdle
    /\ MainIdle
    /\ key_frequency = <<>>
    /\ value_frequency = <<>>
    /\ response_history = <<>>
    /\ novelty_weight \in Weights
    /\ n_observe = 0
    /\ nt_last = <<>>

TrackedNext ==
    \/ \E content \in ChainItems : TrackedCall(content)
    \/ \E failed \in BOOLEAN : \E generated \in Generated(failed) :
           TrackedStep(generated, failed)
    \/ TrackedObserve

SpecTracked == TrackedInit /\ [][TrackedNext]_vars

(***************************************************************************)
(* clipboard.py: process_clipboard_content, content_collector,             *)
(* content_processor, process_content_batch and the consumer loop of main. *)
(* A local that holds None is the empty sequence, a local that holds x is  *)
(* <<x>>.                                                                  *)
(***************************************************************************)
\* PERFORMANCE_CONFIG["max_queue_size"], 100 in the code
max_queue_size == 2

\* PERFORMANCE_CONFIG["batch_size"], 5 in the code
batch_size == 2

\* PERFORMANCE_CONFIG["min_content_length"]
min_content_length == 10

\* PERFORMANCE_CONFIG["concurrent_agents"]
concurrent_agents == 2

\* how many items the collector builds in a behaviour
MaxItems == 3

Workers == 1..concurrent_agents

\* what pyperclip.paste() may return: nothing, a short clip, a longer one
ClipTexts == {"", "tiny", "import pyperclip"}

\* what get_latest_screenshot() may return
Screenshots == {None, "/shots/a.png"}

\* text_content if text_content else latest_screenshot
Hashed(text_content, latest_screenshot) ==
    IF text_content # "" THEN text_content ELSE latest_screenshot

too_short_never(text_content) == FALSE

\* text_content and len(text_content) < min_content_length
too_short(text_content) ==
    text_content # "" /\ Len(text_content) < min_content_length

skips_short_only(text_content, latest_screenshot, last_hash) ==
    too_short(text_content)

\* the `return None` of line 162: unchanged content, or a clip too short
skips(text_content, latest_screenshot, last_hash) ==
    \/ get_content_hash(Hashed(text_content, latest_screenshot)) = last_hash
    \/ too_short(text_content)

\* what process_clipboard_content returns when nothing raises; save_image
\* gives the path of the copy under ASSETS_DIR
clipboard_content(text_content, latest_screenshot, last_hash, id) ==
    LET current_hash == get_content_hash(Hashed(text_content, latest_screenshot))
    IN  IF skips(text_content, latest_screenshot, last_hash) THEN <<>>
        ELSE IF text_content # ""
             THEN <<Item("text", text_content, current_hash, id)>>
        ELSE IF latest_screenshot # None
             THEN <<Item("image", "/assets/0f.png", current_hash, id)>>
        ELSE <<>>

hash_after_keeps(text_content, latest_screenshot, last_hash) == last_hash

hash_after_even_if_skipped(text_content, latest_screenshot, last_hash) ==
    get_content_hash(Hashed(text_content, latest_screenshot))

\* last_content_hash after the call: set on line 164 unless line 162 returned
hash_after(text_content, latest_screenshot, last_hash) ==
    IF skips(text_content, latest_screenshot, last_hash) THEN last_hash
    ELSE get_content_hash(Hashed(text_content, latest_screenshot))

\* history: one process_clipboard_content call.  fresh: the fingerprint
\* differed from last_content_hash; fit: there was content and it was not a
\* clip under 10 characters; again: the call before saw the same fingerprint,
\* and before_out is what that call gave
Tick(text_content, latest_screenshot, last_hash, out) ==
    LET hash == get_content_hash(Hashed(text_content, latest_screenshot))
    IN  [hash |-> hash,
         fresh |-> hash # last_hash,
         fit |-> ~(text_content # "" /\ Len(text_content) < 10)
                 /\ (text_content # "" \/ latest_screenshot # None),
         out |-> out,
         again |-> ticks # <<>> /\ ticks[1].hash = hash,
         before |-> IF ticks # <<>> /\ ticks[1].hash = hash
                    THEN [fresh |-> ticks[1].fresh, fit |-> ticks[1].fit,
                          out |-> ticks[1].out]
                    ELSE [fresh |-> FALSE, fit |-> FALSE, out |-> "none"]]

full_off_by_one(queue) == Len(queue) > max_queue_size

full_never(queue) == FALSE

\* content_queue.full()
full(queue) == Len(queue) >= max_queue_size

\* one pass of content_collector up to the put: content =
\* process_clipboard_content(), the clipboard holding text_content and the
\* newest screenshot being latest_screenshot, then
\* `if content and not content_queue.full()`: go on to put, or give the
\* item up, sleep and poll again
CollectorPoll(text_content, latest_screenshot) ==
    /\ c_pc = "poll"
    /\ LET content == clipboard_content(text_content, latest_screenshot,
                                        last_content_hash, next_id)
       IN  /\ content # <<>> => next_id <= MaxItems
           /\ next_id' = IF content # <<>> THEN next_id + 1 ELSE next_id
           /\ ticks' = <<Tick(text_content, latest_screenshot, last_content_hash,
                              IF content # <<>> THEN "item" ELSE "none")>>
           /\ IF content # <<>> /\ ~full(content_queue)
              THEN /\ c_pc' = "put"
                   /\ c_content' = content
                   /\ UNCHANGED dropped
              ELSE /\ c_pc' = "poll"
                   /\ c_content' = <<>>
                   /\ dropped' = dropped \cup {content[i].id : i \in 1..Len(content)}
    /\ last_content_hash' = hash_after(text_content, latest_screenshot,
                                       last_content_hash)
    /\ UNCHANGED <<content_queue, result_queue, w_pc, batch, chained>>
    /\ UNCHANGED <<chainVars, novVars, batchVars, lockVars>>
    /\ UNCHANGED mainVars

\* process_clipboard_content raises in save_image (the screenshot is gone or
\* the copy fails): last_content_hash is already set, `except Exception` in
\* content_collector prints and the loop sleeps
CollectorPollRaises(latest_screenshot) ==
    /\ c_pc = "poll"
    /\ latest_screenshot # None
    /\ ~skips("", latest_screenshot, last_content_hash)
    /\ last_content_hash' = get_content_hash(latest_screenshot)
    /\ ticks' = <<Tick("", latest_screenshot, last_content_hash, "raised")>>
    /\ UNCHANGED <<c_pc, c_content, content_queue, result_queue, w_pc, batch,
                   next_id, chained, dropped>>
    /\ UNCHANGED <<chainVars, novVars, batchVars, lockVars>>
    /\ UNCHANGED mainVars

put_in_front(queue, item) == <<item>> \o queue

\* the queue after put(item): the item is behind the ones already there
put(queue, item) == Append(queue, item)

\* content_queue.put(content): waits while the queue holds maxsize items
CollectorPut ==
    /\ c_pc = "put"
    /\ Len(content_queue) < max_queue_size
    /\ content_queue' = put(content_queue, c_content[1])
    /\ c_pc' = "poll"
    /\ c_content' = <<>>
    /\ UNCHANGED <<last_content_hash, result_queue, w_pc, batch, next_id, chained, ticks, dropped>>
    /\ UNCHANGED <<chainVars, novVars, batchVars, lockVars>>
    /\ UNCHANGED mainVars

WorkerCheck_waits_for_full_batch(w) ==
    /\ w_pc[w] = "while"
    /\ w_pc' = [w_pc EXCEPT ![w] =
                   IF Len(batch[w]) < batch_size /\ content_queue # <<>> THEN "get"
                   ELSE IF Len(batch[w]) = batch_size THEN "process"
                   ELSE "while"]
    /\ UNCHANGED <<last_content_hash, content_queue, result_queue, c_pc,
                   c_content, batch, next_id, chained, ticks, dropped>>
    /\ UNCHANGED <<chainVars, novVars, batchVars, lockVars>>
    /\ UNCHANGED mainVars

\* `while len(batch) < batch_size and not content_queue.empty()`: go on to
\* get_nowait; else `if batch:` goes on to process_content_batch, or the
\* worker sleeps and loops
WorkerCheck(w) ==
    /\ w_pc[w] = "while"
    /\ w_pc' = [w_pc EXCEPT ![w] =
                   IF Len(batch[w]) < batch_size /\ content_queue # <<>> THEN "get"
                   ELSE IF batch[w] # <<>> THEN "process"
                   ELSE "while"]
    /\ UNCHANGED <<last_content_hash, content_queue, result_queue, c_pc,
                   c_content, batch, next_id, chained, ticks, dropped>>
    /\ UNCHANGED <<chainVars, novVars, batchVars, lockVars>>
    /\ UNCHANGED mainVars

get_nowait_keeps(queue) == queue

\* the queue after get_nowait() took its oldest item
get_nowait(queue) == Tail(queue)

WorkerGet_loses_batch(w) ==
    /\ w_pc[w] = "get"
    /\ IF content_queue = <<>>
       THEN /\ batch' = [batch EXCEPT ![w] = <<>>]
            /\ UNCHANGED content_queue
       ELSE /\ batch' = [batch EXCEPT ![w] = Append(@, Head(content_queue))]
            /\ content_queue' = get_nowait(content_queue)
    /\ w_pc' = [w_pc EXCEPT ![w] = "while"]
    /\ UNCHANGED <<last_content_hash, result_queue, c_pc, c_content, next_id, chained, ticks, dropped>>
    /\ UNCHANGED <<chainVars, novVars, batchVars, lockVars>>
    /\ UNCHANGED mainVars

\* content = content_queue.get_nowait(); batch.append(content).  On an empty
\* queue it raises Empty: `except Exception` prints and the outer loop starts
\* over with the batch as it is
WorkerGet(w) ==
    /\ w_pc[w] = "get"
    /\ IF content_queue = <<>>
       THEN UNCHANGED <<content_queue, batch>>
       ELSE /\ batch' = [batch EXCEPT ![w] = Append(@, Head(content_queue))]
            /\ content_queue' = get_nowait(content_queue)
    /\ w_pc' = [w_pc EXCEPT ![w] = "while"]
    /\ UNCHANGED <<last_content_hash, result_queue, c_pc, c_content, next_id, chained, ticks, dropped>>
    /\ UNCHANGED <<chainVars, novVars, batchVars, lockVars>>
    /\ UNCHANGED mainVars

\* the items of the batch at the given positions, in batch order
RECURSIVE Picked(_, _)
Picked(items, answered) ==
    IF items = <<>> THEN <<>>
    ELSE Picked(SubSeq(items, 1, Len(items) - 1), answered)
           \o (IF Len(items) \in answered THEN <<items[Len(items)]>> ELSE <<>>)

\* results = process_content_batch(batch), result_queue.put of each result,
\* batch = [], sleep.  query_ai is called on every item of the batch, in
\* order; it returns its dict for the items at the positions `answered` and
\* None, after an error of its own, for the others.  The calls touch nothing
\* the other threads read, so the batch is one step.
WorkerProcess(w, answered) ==
    /\ w_pc[w] = "process"
    /\ chained' = [id \in DOMAIN chained |->
                      IF \E i \in 1..Len(batch[w]) : batch[w][i].id = id
                      THEN Append(chained[id], w) ELSE chained[id]]
    /\ result_queue' = result_queue \o Picked(batch[w], answered)
    /\ batch' = [batch EXCEPT ![w] = <<>>]
    /\ w_pc' = [w_pc EXCEPT ![w] = "while"]
    /\ UNCHANGED <<last_content_hash, content_queue, c_pc, c_content, next_id,
                   ticks, dropped>>
    /\ UNCHANGED <<chainVars, novVars, batchVars, lockVars>>
    /\ UNCHANGED mainVars

\* main: content, response = result_queue.get(timeout=1)
MainGet ==
    /\ result_queue # <<>>
    /\ result_queue' = Tail(result_queue)
    /\ UNCHANGED <<last_content_hash, content_queue, c_pc, c_content, w_pc,
                   batch, next_id, chained, ticks, dropped>>
    /\ UNCHANGED <<chainVars, novVars, batchVars, lockVars>>
    /\ UNCHANGED mainVars

Init ==
    /\ last_content_hash = None
    /\ content_queue = <<>>
    /\ result_queue = <<>>
    /\ c_pc = "poll"
    /\ c_content = <<>>
    /\ w_pc = [w \in Workers |-> "while"]
    /\ batch = [w \in Workers |-> <<>>]
    /\ next_id = 1
    /\ chained = [id \in 1..MaxItems |-> <<>>]
    /\ ticks = <<>>
    /\ dropped = {}
    /\ ChainIdle
    /\ NovIdle
    /\ BatchIdle
    /\ LockIdle
    /\ MainIdle

Next ==
    \/ \E text_content \in ClipTexts, latest_screenshot \in Screenshots :
           CollectorPoll(text_content, latest_screenshot)
    \/ \E latest_screenshot \in Screenshots : CollectorPollRaises(latest_screenshot)
    \/ CollectorPut
    \/ \E w \in Workers : WorkerCheck(w)
    \/ \E w \in Workers : WorkerGet(w)
    \/ \E w \in Workers : \E answered \in SUBSET (1..Len(batch[w])) :
           WorkerProcess(w, answered)
    \/ MainGet

Spec == Init /\ [][Next]_vars

(***************************************************************************)
(* clipboard.py: content_processor with process_content_batch and the      *)
(* agent loop of query_ai taken statement by statement, on a queue the     *)
(* collector has filled.  WorkerCheck and WorkerGet are the steps above;   *)
(* what the agents answer is left out, only how far each call gets.        *)
(***************************************************************************)
\* the i-th item the collector enqueued: a clip, a screenshot, a clip, ...
QueuedItem(i) ==
    IF i % 2 = 1
    THEN Item("text", "import pyperclip", get_content_hash("import pyperclip"), i)
    ELSE Item("image", "/assets/0f.png", get_content_hash("/shots/a.png"), i)

\* content_queue holding the first n items, for n up to its capacity
FilledQueues == {[i \in 1..n |-> QueuedItem(i)] : n \in 1..max_queue_size}

\* results = process_content_batch(batch): results = []
BatchEnter(w) ==
    /\ w_pc[w] = "process"
    /\ w_pc' = [w_pc EXCEPT ![w] = "for"]
    /\ w_i' = [w_i EXCEPT ![w] = 1]
    /\ w_results' = [w_results EXCEPT ![w] = <<>>]
    /\ UNCHANGED <<w_step, w_calls, q_calls>>
    /\ UNCHANGED <<last_content_hash, content_queue, result_queue, c_pc,
                   c_content, batch, next_id, chained, ticks, dropped>>
    /\ UNCHANGED <<chainVars, novVars, lockVars>>
    /\ UNCHANGED mainVars

\* `for content in batch`: response = query_ai(content) is entered with
\* empty agents_thoughts, or the loop is over
BatchFor(w) ==
    /\ w_pc[w] = "for"
    /\ IF w_i[w] <= Len(batch[w])
       THEN /\ w_pc' = [w_pc EXCEPT ![w] = "query_ai"]
            /\ w_step' = [w_step EXCEPT ![w] = 0]
            /\ w_calls' = [w_calls EXCEPT ![w] = 0]
            /\ chained' = [chained EXCEPT ![batch[w][w_i[w]].id] = Append(@, w)]
       ELSE /\ w_pc' = [w_pc EXCEPT ![w] = "emit"]
            /\ UNCHANGED <<w_step, w_calls, chained>>
    /\ UNCHANGED <<w_i, w_results, q_calls>>
    /\ UNCHANGED <<last_content_hash, content_queue, result_queue, c_pc,
                   c_content, batch, next_id, ticks, dropped>>
    /\ UNCHANGED <<chainVars, novVars, lockVars>>
    /\ UNCHANGED mainVars

\* one iteration of query_ai's agent loop in which query_ollama returns
BatchAgentStep(w) ==
    /\ w_pc[w] = "query_ai"
    /\ w_step[w] < Len(AgentIds)
    /\ w_step' = [w_step EXCEPT ![w] = @ + 1]
    /\ w_calls' = [w_calls EXCEPT ![w] = @ + 1]
    /\ UNCHANGED <<w_i, w_results, q_calls>>
    /\ UNCHANGED pipeVars
    /\ UNCHANGED <<chainVars, novVars, lockVars>>
    /\ UNCHANGED mainVars

after_failure_leaves(i, n) == n + 1

\* the position of the loop after an item failed: the try is inside the loop,
\* so the next item
after_failure(i, n) == i + 1

appended_always(results, content, response_is_dict) == Append(results, content)

\* `if response: results.append((content, response))`
appended(results, content, response_is_dict) ==
    IF response_is_dict THEN Append(results, content) ELSE results

\* the record of a query_ai call that has returned
CallRecord(w, calls, response_is_dict) ==
    [w |-> w, steps |-> w_step[w], calls |-> calls, dict |-> response_is_dict]

\* query_ollama raises in an iteration: the try of query_ai is around the
\* loop, `except Exception` prints and returns None; `if response:` fails
BatchAgentRaises(w) ==
    /\ w_pc[w] = "query_ai"
    /\ w_step[w] < Len(AgentIds)
    /\ w_calls' = [w_calls EXCEPT ![w] = @ + 1]
    /\ LET content == batch[w][w_i[w]]
       IN  /\ w_results' = [w_results EXCEPT ![w] = appended(@, content, FALSE)]
           /\ q_calls' = [q_calls EXCEPT ![content.id] =
                             Append(@, CallRecord(w, w_calls[w] + 1, FALSE))]
    /\ w_i' = [w_i EXCEPT ![w] = after_failure(@, Len(batch[w]))]
    /\ w_pc' = [w_pc EXCEPT ![w] = "for"]
    /\ UNCHANGED w_step
    /\ UNCHANGED <<last_content_hash, content_queue, result_queue, c_pc,
                   c_content, batch, next_id, chained, ticks, dropped>>
    /\ UNCHANGED <<chainVars, novVars, lockVars>>
    /\ UNCHANGED mainVars

\* the agent loop is over: query_ai returns final_response, the item and the
\* response are appended to results
BatchAgentReturn(w) ==
    /\ w_pc[w] = "query_ai"
    /\ w_step[w] = Len(AgentIds)
    /\ LET content == batch[w][w_i[w]]
       IN  /\ w_results' = [w_results EXCEPT ![w] = appended(@, content, TRUE)]
           /\ q_calls' = [q_calls EXCEPT ![content.id] =
                             Append(@, CallRecord(w, w_calls[w], TRUE))]
    /\ w_i' = [w_i EXCEPT ![w] = @ + 1]
    /\ w_pc' = [w_pc EXCEPT ![w] = "for"]
    /\ UNCHANGED <<w_step, w_calls>>
    /\ UNCHANGED <<last_content_hash, content_queue, result_queue, c_pc,
                   c_content, batch, next_id, chained, ticks, dropped>>
    /\ UNCHANGED <<chainVars, novVars, lockVars>>
    /\ UNCHANGED mainVars

\* `for content, response in results: result_queue.put(...)`, batch = [],
\* sleep; result_queue has no maxsize, so the puts do not wait
BatchEmit(w) ==
    /\ w_pc[w] = "emit"
    /\ result_queue' = result_queue \o w_results[w]
    /\ batch' = [batch EXCEPT ![w] = <<>>]
    /\ w_pc' = [w_pc EXCEPT ![w] = "while"]
    /\ UNCHANGED <<w_i, w_step, w_calls, w_results, q_calls>>
    /\ UNCHANGED <<last_content_hash, content_queue, c_pc, c_content, next_id,
                   chained, ticks, dropped>>
    /\ UNCHANGED <<chainVars, novVars, lockVars>>
    /\ UNCHANGED mainVars

BatchInit ==
    /\ content_queue \in FilledQueues
    /\ last_content_hash = content_queue[Len(content_queue)].hash
    /\ next_id = Len(content_queue) + 1
    /\ result_queue = <<>>
    /\ c_pc = "poll"
    /\ c_content = <<>>
    /\ w_pc = [w \in Workers |-> "while"]
    /\ batch = [w \in Workers |-> <<>>]
    /\ chained = [id \in 1..max_queue_size |-> <<>>]
    /\ ticks = <<>>
    /\ dropped = {}
    /\ w_i = [w \in Workers |-> 0]
    /\ w_step = [w \in Workers |-> 0]
    /\ w_calls = [w \in Workers |-> 0]
    /\ w_results = [w \in Workers |-> <<>>]
    /\ q_calls = [id \in 1..max_queue_size |-> <<>>]
    /\ ChainIdle
    /\ NovIdle
    /\ LockIdle
    /\ MainIdle

BatchNext ==
    \/ \E w \in Workers : WorkerCheck(w)
    \/ \E w \in Workers : WorkerGet(w)
    \/ \E w \in Workers : BatchEnter(w)
    \/ \E w \in Workers : BatchFor(w)
    \/ \E w \in Workers : BatchAgentStep(w)
    \/ \E w \in Workers : BatchAgentRaises(w)
    \/ \E w \in Workers : BatchAgentReturn(w)
    \/ \E w \in Workers : BatchEmit(w)

SpecBatch == BatchInit /\ [][BatchNext]_vars

\* the steps of one content_processor thread
WorkerSteps(w) ==
    \/ WorkerCheck(w)
    \/ WorkerGet(w)
    \/ BatchEnter(w)
    \/ BatchFor(w)
    \/ BatchAgentStep(w)
    \/ BatchAgentRaises(w)
    \/ BatchAgentReturn(w)
    \/ BatchEmit(w)

\* each worker thread keeps being scheduled: its loop has no blocking call
\* but client.generate, which is taken to return or raise
SpecBatchFair == SpecBatch /\ \A w \in Workers : WF_vars(WorkerSteps(w))

(***************************************************************************)
(* The worker threads on the one NoveltyTracker, call by call: each worker *)
(* is in query_ollama (client.generate three times, then the scoring) or   *)
(* in add_response, which is taken increment by increment; the collector   *)
(* enters and leaves the `with clipboard_lock` of                          *)
(* process_clipboard_content.  A scoring is one step: it takes no lock, so *)
(* it can fall between any two steps of another thread.                    *)
(***************************************************************************)
\* the collector thread; the workers are 1..concurrent_agents
CollectorThread == 0

SharedWorkers == 1..concurrent_agents

\* candidate sets scored
SharedCandidates ==
    { <<PythonText, GoText, PythonText>>, <<GoText, PlainText, GoText>> }

\* response_dict arguments of add_response
SharedDicts ==
    { <<Entry(PythonText)>>, <<Entry(GoText)>>, <<Entry(GoText), Entry(MixedText)>> }

acquired(lock, thread) == lock \cup {thread}

released_never(lock, thread) == lock

\* the lock after the `with` block is left, by its end or by an exception
released(lock, thread) == lock \ {thread}

\* query_ollama(prompt) is entered: responses = [], the first
\* client.generate call is under way
GenerateCall(w) ==
    /\ t_pc[w] = "idle"
    /\ t_pc' = [t_pc EXCEPT ![w] = "generate"]
    /\ t_gen' = [t_gen EXCEPT ![w] = 0]
    /\ UNCHANGED <<t_todo, tracker_lock, clipboard_lock, t_scored>>
    /\ UNCHANGED <<pipeVars, chainVars, novVars, batchVars>>
    /\ UNCHANGED mainVars

\* client.generate returns a candidate: the next call, or on to the scoring
GenerateReturns(w) ==
    /\ t_pc[w] = "generate"
    /\ t_gen' = [t_gen EXCEPT ![w] = @ + 1]
    /\ t_pc' = [t_pc EXCEPT ![w] =
                   IF t_gen[w] + 1 = NUM_CANDIDATES THEN "score" ELSE "generate"]
    /\ UNCHANGED <<t_todo, tracker_lock, clipboard_lock, t_scored>>
    /\ UNCHANGED <<pipeVars, chainVars, novVars, batchVars>>
    /\ UNCHANGED mainVars

\* client.generate raises: the except branch returns without scoring
GenerateRaises(w) ==
    /\ t_pc[w] = "generate"
    /\ t_pc' = [t_pc EXCEPT ![w] = "idle"]
    /\ UNCHANGED <<t_gen, t_todo, tracker_lock, clipboard_lock, t_scored>>
    /\ UNCHANGED <<pipeVars, chainVars, novVars, batchVars>>
    /\ UNCHANGED mainVars

\* novelty_scores = [get_novelty_score(r) for r in responses], the final
\* scores, np.argmax, return; get_novelty_score reads key_frequency and
\* value_frequency without taking the lock
ScoreCandidates(w, generated) ==
    /\ t_pc[w] = "score"
    /\ LET index == select_index(key_frequency, value_frequency,
                                 novelty_weight, generated, FALSE)
       IN  t_scored' = <<[w |-> w, responses |-> generated, index |-> index,
                          result |-> select_response(generated, index)]>>
    /\ t_pc' = [t_pc EXCEPT ![w] = "idle"]
    /\ UNCHANGED <<t_gen, t_todo, tracker_lock, clipboard_lock>>
    /\ UNCHANGED <<pipeVars, chainVars, novVars, batchVars>>
    /\ UNCHANGED mainVars

\* add_response(response_dict) is entered and waits at `with self.lock`
ObserveCall(w, response_dict) ==
    /\ t_pc[w] = "idle"
    /\ n_observe < MaxObserve
    /\ n_observe' = n_observe + 1
    /\ t_pc' = [t_pc EXCEPT ![w] = "with"]
    /\ t_todo' = [t_todo EXCEPT ![w] =
                     [pairs |-> DictPairs(response_dict), dict |-> response_dict]]
    /\ UNCHANGED <<t_gen, tracker_lock, clipboard_lock, t_scored>>
    /\ UNCHANGED <<key_frequency, value_frequency, response_history,
                   novelty_weight, nt_last>>
    /\ UNCHANGED <<pipeVars, chainVars, batchVars>>
    /\ UNCHANGED mainVars

\* `with self.lock:` the lock is taken when no thread holds it
ObserveAcquire(w) ==
    /\ t_pc[w] = "with"
    /\ tracker_lock = {}
    /\ tracker_lock' = acquired(tracker_lock, w)
    /\ t_pc' = [t_pc EXCEPT ![w] = "for"]
    /\ UNCHANGED <<t_gen, t_todo, clipboard_lock, t_scored>>
    /\ UNCHANGED <<pipeVars, chainVars, novVars, batchVars>>
    /\ UNCHANGED mainVars

\* `for k, v in pairs:` the next pair is unpacked and key_frequency[k] += 1;
\* a pair that does not unpack raises ValueError out of the with block; with
\* no pair left, response_history.append(response_dict) and the block ends
ObserveFor(w) ==
    /\ t_pc[w] = "for"
    /\ LET pairs == t_todo[w].pairs
       IN  IF pairs = <<>>
           THEN /\ response_history' =
                       DequeAppend(response_history, t_todo[w].dict)
                /\ tracker_lock' = released(tracker_lock, w)
                /\ t_pc' = [t_pc EXCEPT ![w] = "idle"]
                /\ UNCHANGED <<key_frequency, t_todo>>
           ELSE IF ~Unpacks(Head(pairs))
           THEN /\ tracker_lock' = released(tracker_lock, w)
                /\ t_pc' = [t_pc EXCEPT ![w] = "idle"]
                /\ UNCHANGED <<key_frequency, response_history, t_todo>>
           ELSE /\ key_frequency' = Inc(key_frequency, Strip(Head(pairs)[1]))
                /\ t_pc' = [t_pc EXCEPT ![w] = "value"]
                /\ UNCHANGED <<tracker_lock, response_history, t_todo>>
    /\ UNCHANGED <<t_gen, clipboard_lock, t_scored>>
    /\ UNCHANGED <<value_frequency, novelty_weight, n_observe, nt_last>>
    /\ UNCHANGED <<pipeVars, chainVars, batchVars>>
    /\ UNCHANGED mainVars

\* self.value_frequency[v] += 1 for the pair whose key was just counted
ObserveValue(w) ==
    /\ t_pc[w] = "value"
    /\ value_frequency' = Inc(value_frequency, Strip(Head(t_todo[w].pairs)[2]))
    /\ t_todo' = [t_todo EXCEPT ![w].pairs = Tail(@)]
    /\ t_pc' = [t_pc EXCEPT ![w] = "for"]
    /\ UNCHANGED <<t_gen, tracker_lock, clipboard_lock, t_scored>>
    /\ UNCHANGED <<key_frequency, response_history, novelty_weight, n_observe,
                   nt_last>>
    /\ UNCHANGED <<pipeVars, chainVars, batchVars>>
    /\ UNCHANGED mainVars

\* the collector enters `with clipboard_lock:` in process_clipboard_content
ClipboardEnter ==
    /\ clipboard_lock = {}
    /\ clipboard_lock' = acquired(clipboard_lock, CollectorThread)
    /\ UNCHANGED <<t_pc, t_gen, t_todo, tracker_lock, t_scored>>
    /\ UNCHANGED <<pipeVars, chainVars, novVars, batchVars>>
    /\ UNCHANGED mainVars

\* the collector leaves the with block
ClipboardLeave ==
    /\ CollectorThread \in clipboard_lock
    /\ clipboard_lock' = released(clipboard_lock, CollectorThread)
    /\ UNCHANGED <<t_pc, t_gen, t_todo, tracker_lock, t_scored>>
    /\ UNCHANGED <<pipeVars, chainVars, novVars, batchVars>>
    /\ UNCHANGED mainVars

SharedInit ==
    /\ PipeIdle
    /\ ChainIdle
    /\ BatchIdle
    /\ NovIdle
    /\ t_pc = [w \in SharedWorkers |-> "idle"]
    /\ t_gen = [w \in SharedWorkers |-> 0]
    /\ t_todo = [w \in SharedWorkers |-> [pairs |-> <<>>, dict |-> <<>>]]
    /\ tracker_lock = {}
    /\ clipboard_lock = {}
    /\ t_scored = <<>>
    /\ MainIdle

SharedNext ==
    \/ \E w \in SharedWorkers : GenerateCall(w)
    \/ \E w \in SharedWorkers : GenerateReturns(w)
    \/ \E w \in SharedWorkers : GenerateRaises(w)
    \/ \E w \in SharedWorkers : \E generated \in SharedCandidates :
           ScoreCandidates(w, generated)
    \/ \E w \in SharedWorkers : \E response_dict \in SharedDicts :
           ObserveCall(w, response_dict)
    \/ \E w \in SharedWorkers : ObserveAcquire(w)
    \/ \E w \in SharedWorkers : ObserveFor(w)
    \/ \E w \in SharedWorkers : ObserveValue(w)
    \/ ClipboardEnter
    \/ ClipboardLeave

SpecShared == SharedInit /\ [][SharedNext]_vars

(***************************************************************************)
(* clipboard.py: the whole program with what it prints and logs.  main      *)
(* starts the daemon threads and loops on result_queue.get(timeout=1); a   *)
(* KeyboardInterrupt is raised in the main thread wherever it stands.  A   *)
(* pass of content_collector is one step here (its put never waits), and   *)
(* the workers are taken in the steps of Spec.  stdout holds the lines     *)
(* that report something about the run; the agents' own answers, which     *)
(* query_ai prints as well, are left out, and the history `ticks` of Spec  *)
(* is not kept.                                                            *)
(***************************************************************************)
\* a printed or logged line and the item it was written for (0: for none)
Line(text, id) == [line |-> text, id |-> id]

\* the daemon threads run from their start until the interpreter has exited
Running == m_pc \in {"get", "while", "shutdown"}

\* main up to its loop: the three start lines, collector_thread.start() and
\* the start of each processor thread
MainStart ==
    /\ m_pc = "idle"
    /\ m_pc' = "get"
    /\ stdout' = stdout \cup {Line("Starting optimized clipboard monitor...", 0),
                              Line("Batch size", 0), Line("Poll interval", 0)}
    /\ UNCHANGED <<log_file, m_raised>>
    /\ UNCHANGED <<pipeVars, chainVars, novVars, batchVars, lockVars>>

\* one pass of content_collector in which nothing raises:
\* process_clipboard_content, then the put when there is content and the
\* queue is not full, then the sleep.  No branch prints or logs.
MainCollect(text_content, latest_screenshot) ==
    /\ Running
    /\ LET content == clipboard_content(text_content, latest_screenshot,
                                        last_content_hash, next_id)
       IN  /\ content # <<>> => next_id <= MaxItems
           /\ next_id' = IF content # <<>> THEN next_id + 1 ELSE next_id
           /\ IF content # <<>> /\ ~full(content_queue)
              THEN /\ content_queue' = put(content_queue, content[1])
                   /\ UNCHANGED dropped
              ELSE /\ dropped' = dropped \cup {content[i].id : i \in 1..Len(content)}
                   /\ UNCHANGED content_queue
    /\ last_content_hash' = hash_after(text_content, latest_screenshot,
                                       last_content_hash)
    /\ UNCHANGED <<m_pc, stdout, log_file, m_raised>>
    /\ UNCHANGED <<result_queue, c_pc, c_content, w_pc, batch, chained, ticks>>
    /\ UNCHANGED <<chainVars, novVars, batchVars, lockVars>>

\* a pass in which save_image raises: `except Exception` prints
MainCollectRaises(latest_screenshot) ==
    /\ Running
    /\ latest_screenshot # None
    /\ ~skips("", latest_screenshot, last_content_hash)
    /\ last_content_hash' = get_content_hash(latest_screenshot)
    /\ stdout' = stdout \cup {Line("Error collecting content", 0)}
    /\ UNCHANGED <<m_pc, log_file, m_raised>>
    /\ UNCHANGED <<c_pc, c_content, content_queue, result_queue, w_pc, batch,
                   next_id, chained, ticks, dropped>>
    /\ UNCHANGED <<chainVars, novVars, batchVars, lockVars>>

\* the head of the worker's inner while and `if batch:`, which print nothing
MainWorkerCheck(w) ==
    /\ Running
    /\ WorkerCheck(w)

\* content_queue.get_nowait() and batch.append(content); on Empty the
\* `except Exception` of content_processor prints
MainWorkerGet(w) ==
    /\ Running
    /\ w_pc[w] = "get"
    /\ IF content_queue = <<>>
       THEN /\ stdout' = stdout \cup {Line("Error processing batch", 0)}
            /\ UNCHANGED <<content_queue, batch>>
       ELSE /\ batch' = [batch EXCEPT ![w] = Append(@, Head(content_queue))]
            /\ content_queue' = get_nowait(content_queue)
            /\ UNCHANGED stdout
    /\ w_pc' = [w_pc EXCEPT ![w] = "while"]
    /\ UNCHANGED <<m_pc, log_file, m_raised>>
    /\ UNCHANGED <<last_content_hash, result_queue, c_pc, c_content, next_id,
                   chained, ticks, dropped>>
    /\ UNCHANGED <<chainVars, novVars, batchVars, lockVars>>

\* process_content_batch and the puts on result_queue: query_ai prints
\* "Error querying AI" and returns None for the items it does not answer
MainWorkerProcess(w, answered) ==
    /\ Running
    /\ w_pc[w] = "process"
    /\ chained' = [id \in DOMAIN chained |->
                      IF \E i \in 1..Len(batch[w]) : batch[w][i].id = id
                      THEN Append(chained[id], w) ELSE chained[id]]
    /\ result_queue' = result_queue \o Picked(batch[w], answered)
    /\ stdout' = stdout \cup {Line("Error querying AI", batch[w][i].id) :
                                 i \in (1..Len(batch[w])) \ answered}
    /\ batch' = [batch EXCEPT ![w] = <<>>]
    /\ w_pc' = [w_pc EXCEPT ![w] = "while"]
    /\ UNCHANGED <<m_pc, log_file, m_raised>>
    /\ UNCHANGED <<last_content_hash, content_queue, c_pc, c_content, next_id,
                   ticks, dropped>>
    /\ UNCHANGED <<chainVars, novVars, batchVars, lockVars>>

\* main: result_queue.get(timeout=1) returns a result, the two prints and
\* log_event("Content Processed", ...); the inner try is left
MainResult ==
    /\ m_pc = "get"
    /\ result_queue # <<>>
    /\ result_queue' = Tail(result_queue)
    /\ stdout' = stdout \cup {Line("Processed content of type", Head(result_queue).id),
                              Line("Queue size", 0)}
    /\ log_file' = log_file \cup {Line("Content Processed", Head(result_queue).id)}
    /\ m_pc' = "while"
    /\ UNCHANGED m_raised
    /\ UNCHANGED <<last_content_hash, content_queue, c_pc, c_content, w_pc,
                   batch, next_id, chained, ticks, dropped>>
    /\ UNCHANGED <<chainVars, novVars, batchVars, lockVars>>

\* main: the get times out with Empty; the bare `except:` continues
MainTimeout ==
    /\ m_pc = "get"
    /\ result_queue = <<>>
    /\ m_pc' = "while"
    /\ UNCHANGED <<stdout, log_file, m_raised>>
    /\ UNCHANGED <<pipeVars, chainVars, novVars, batchVars, lockVars>>

\* main: `while True:` enters the inner try again
MainLoop ==
    /\ m_pc = "while"
    /\ m_pc' = "get"
    /\ UNCHANGED <<stdout, log_file, m_raised>>
    /\ UNCHANGED <<pipeVars, chainVars, novVars, batchVars, lockVars>>

\* KeyboardInterrupt while main is inside the inner try: the bare `except:`
\* of line 334 catches it and continues
MainInterruptInTry ==
    /\ m_pc = "get"
    /\ m_pc' = "while"
    /\ m_raised' = <<"KeyboardInterrupt">>
    /\ UNCHANGED <<stdout, log_file>>
    /\ UNCHANGED <<pipeVars, chainVars, novVars, batchVars, lockVars>>

\* KeyboardInterrupt while main is between two passes of the inner try:
\* `except KeyboardInterrupt` prints and main returns
MainInterruptOutside ==
    /\ m_pc = "while"
    /\ m_pc' = "shutdown"
    /\ m_raised' = <<"KeyboardInterrupt">>
    /\ stdout' = stdout \cup {Line("Shutting down...", 0)}
    /\ UNCHANGED log_file
    /\ UNCHANGED <<pipeVars, chainVars, novVars, batchVars, lockVars>>

\* the interpreter exits after main returned; the daemon threads end with it
MainExit ==
    /\ m_pc = "shutdown"
    /\ m_pc' = "exited"
    /\ UNCHANGED <<stdout, log_file, m_raised>>
    /\ UNCHANGED <<pipeVars, chainVars, novVars, batchVars, lockVars>>

MainInit ==
    /\ last_content_hash = None
    /\ content_queue = <<>>
    /\ result_queue = <<>>
    /\ c_pc = "poll"
    /\ c_content = <<>>
    /\ w_pc = [w \in Workers |-> "while"]
    /\ batch = [w \in Workers |-> <<>>]
    /\ next_id = 1
    /\ chained = [id \in 1..MaxItems |-> <<>>]
    /\ ticks = <<>>
    /\ dropped = {}
    /\ ChainIdle
    /\ NovIdle
    /\ BatchIdle
    /\ LockIdle
    /\ MainIdle

MainNext ==
    \/ MainStart
    \/ \E text_content \in ClipTexts, latest_screenshot \in Screenshots :
           MainCollect(text_content, latest_screenshot)
    \/ \E latest_screenshot \in Screenshots : MainCollectRaises(latest_screenshot)
    \/ \E w \in Workers : MainWorkerCheck(w)
    \/ \E w \in Workers : MainWorkerGet(w)
    \/ \E w \in Workers : \E answered \in SUBSET (1..Len(batch[w])) :
           MainWorkerProcess(w, answered)
    \/ MainResult
    \/ MainTimeout
    \/ MainLoop
    \/ MainInterruptInTry
    \/ MainInterruptOutside
    \/ MainExit

SpecMain == MainInit /\ [][MainNext]_vars

(***************************************************************************)
(* Claims about the collector, the queue and the workers, under Spec.      *)
(***************************************************************************)
\* the items a worker has taken and not yet processed
InBatches(id) == {w \in Workers : \E i \in 1..Len(batch[w]) : batch[w][i].id = id}
InQueue(id) == {i \in 1..Len(content_queue) : content_queue[i].id = id}

\* C1: content_queue never holds more than max_queue_size items, and a pass
\* of the collector that has an item while the queue is full gives the item
\* up: the queue stays as it is and the collector goes back to polling.
C1_QueueBounded ==
    /\ [](Len(content_queue) <= max_queue_size)
    /\ [][(c_pc = "poll" /\ next_id' = next_id + 1
             /\ Len(content_queue) = max_queue_size) =>
             /\ content_queue' = content_queue
             /\ c_pc' = "poll"
             /\ c_content' = <<>>
             /\ next_id \in dropped']_vars

\* an item was given up on a full queue
C1_Witness ==
    /\ dropped # {}
    /\ Len(content_queue) = max_queue_size
    /\ c_pc = "poll"

\* C2 as stated: of two polls in a row that see the same fingerprint, the
\* first returns an item and the second returns None.
C2_FirstReturnsSecondSkips ==
    (ticks # <<>> /\ ticks[1].again) =>
        /\ ticks[1].before.out = "item"
        /\ ticks[1].out = "none"

\* C2 as amended: of two polls in a row that see the same fingerprint, the
\* second returns None; the first returns an item only if the fingerprint
\* differed from last_content_hash and there was content that was not a clip
\* under min_content_length, and then it does unless saving the screenshot
\* raises; so at most one item is offered.
C2_RepeatIsSuppressed ==
    (ticks # <<>> /\ ticks[1].again) =>
        /\ ticks[1].out = "none"
        /\ ticks[1].before.out = "item" => (ticks[1].before.fresh /\ ticks[1].before.fit)
        /\ (ticks[1].before.fresh /\ ticks[1].before.fit) =>
               ticks[1].before.out \in {"item", "raised"}

\* the same longer clip was polled twice: an item, then None
C2_Witness ==
    /\ ticks # <<>>
    /\ ticks[1].again
    /\ ticks[1].hash = get_content_hash("import pyperclip")
    /\ ticks[1].before.out = "item"
    /\ ticks[1].out = "none"

\* C3: no text item shorter than min_content_length is ever in content_queue
\* (nor in the collector's hand or a worker's batch).
C3_NoShortText ==
    /\ \A i \in 1..Len(content_queue) :
           content_queue[i].type = "text" => Len(content_queue[i].content) >= 10
    /\ \A i \in 1..Len(c_content) :
           c_content[i].type = "text" => Len(c_content[i].content) >= 10
    /\ \A w \in Workers : \A i \in 1..Len(batch[w]) :
           batch[w][i].type = "text" => Len(batch[w][i].content) >= 10

\* a short clip with a fingerprint not seen before was polled and refused,
\* while the queue holds a text item
C3_Witness ==
    /\ ticks # <<>>
    /\ ticks[1].hash = get_content_hash("tiny")
    /\ ticks[1].fresh
    /\ ticks[1].out = "none"
    /\ \E i \in 1..Len(content_queue) : content_queue[i].type = "text"

\* C4: an item is in the queue, in one worker's batch, or has been passed to
\* query_ai once, never two of these: no item is taken by two workers and
\* none is passed to the agent chain twice.
C4_OneWorkerPerItem ==
    \A id \in 1..MaxItems :
        Cardinality(InQueue(id)) + Cardinality(InBatches(id)) + Len(chained[id]) <= 1

\* both workers have passed an item to query_ai
C4_Witness ==
    \E a, b \in 1..MaxItems :
        /\ a # b
        /\ chained[a] = <<1>>
        /\ chained[b] = <<2>>

\* the ids of the items that have left content_queue
Dequeued ==
    {id \in 1..MaxItems : InBatches(id) # {} \/ chained[id] # <<>>}

\* C13: whenever the collector stands at content_queue.put the queue has
\* room, whatever the workers did since the collector tested full(), so the
\* put does not wait; an item polled on a full queue went nowhere and the
\* collector is polling again with nothing in hand.
C13_PutNeverWaits ==
    /\ c_pc = "put" => (c_content # <<>> /\ Len(content_queue) < max_queue_size)
    /\ c_pc = "poll" => c_content = <<>>
    /\ \A id \in dropped :
           /\ InQueue(id) = {}
           /\ id \notin Dequeued
           /\ \A i \in 1..Len(c_content) : c_content[i].id # id

\* the collector stands at a put with one place left in the queue while a
\* worker is about to take from it
C13_Witness ==
    /\ c_pc = "put"
    /\ Len(content_queue) = max_queue_size - 1
    /\ \E w \in Workers : w_pc[w] = "get"

\* C14: the collector builds the items one after the other, so the order of
\* entering is the order of the ids: content_queue holds its items in that
\* order, every item that has left it entered before every item still in it,
\* and a worker that takes an item takes the oldest one.
C14_FifoOrder ==
    /\ [](/\ \A i, j \in 1..Len(content_queue) :
                i < j => content_queue[i].id < content_queue[j].id
          /\ \A id \in Dequeued : \A j \in 1..Len(content_queue) :
                id < content_queue[j].id)
    /\ [][\A w \in Workers :
              Len(batch'[w]) > Len(batch[w]) =>
                  /\ batch'[w] = Append(batch[w], Head(content_queue))
                  /\ content_queue' = Tail(content_queue)]_vars

\* the two workers hold one item each and a third is in the queue
C14_Witness ==
    /\ Len(batch[1]) = 1
    /\ Len(batch[2]) = 1
    /\ content_queue # <<>>

\* fingerprints of the clips under min_content_length
ShortHashes == {get_content_hash(text) : text \in {t \in ClipTexts : too_short(t)}}

\* the step is a process_clipboard_content call
Polls == ticks' # ticks

\* C24: a call that refuses a clip under min_content_length leaves
\* last_content_hash as it was; and when the call after such a refusal sees
\* the fingerprint last_content_hash still holds, it returns None and nothing
\* is enqueued, although the call before it saw another fingerprint.
C24_ShortClipKeepsLastSeen ==
    /\ [][(Polls /\ ticks'[1].hash \in ShortHashes) =>
              /\ last_content_hash' = last_content_hash
              /\ ticks'[1].out = "none"]_vars
    /\ [][(/\ Polls
           /\ ticks # <<>>
           /\ ticks[1].hash \in ShortHashes
           /\ ticks'[1].hash = last_content_hash) =>
              /\ ~ticks'[1].again
              /\ ticks'[1].out = "none"
              /\ last_content_hash' = last_content_hash
              /\ c_pc' = "poll"
              /\ c_content' = <<>>
              /\ content_queue' = content_queue
              /\ next_id' = next_id]_vars

\* the clip, then a short clip, then the clip again: the last call saw the
\* fingerprint of the clip, not the one of the call before it, and gave None
C24_Witness ==
    /\ ticks # <<>>
    /\ ticks[1].hash = get_content_hash("import pyperclip")
    /\ ~ticks[1].again
    /\ ~ticks[1].fresh
    /\ ticks[1].out = "none"
    /\ last_content_hash = get_content_hash("import pyperclip")

\* C25: the call that builds an item which is then given up on a full queue
\* has set last_content_hash to the item's fingerprint; and while the item
\* built last was given up and the calls keep seeing that fingerprint, each
\* returns None and enqueues nothing, whether or not the queue has room.
C25_DroppedItemIsNotOfferedAgain ==
    /\ [][dropped' # dropped =>
              /\ Polls
              /\ dropped' = dropped \cup {next_id}
              /\ next_id' = next_id + 1
              /\ ticks'[1].out = "item"
              /\ last_content_hash' = ticks'[1].hash
              /\ full(content_queue)
              /\ content_queue' = content_queue
              /\ c_pc' = "poll"]_vars
    /\ [][(/\ Polls
           /\ ticks # <<>>
           /\ (next_id - 1) \in dropped
           /\ last_content_hash = ticks[1].hash
           /\ ticks'[1].hash = ticks[1].hash) =>
              /\ ticks'[1].out = "none"
              /\ c_pc' = "poll"
              /\ c_content' = <<>>
              /\ content_queue' = content_queue
              /\ next_id' = next_id
              /\ dropped' = dropped
              /\ last_content_hash' = last_content_hash]_vars

\* the third item was given up, the workers have since emptied the queue, and
\* the next call saw the same content and returned None
C25_Witness ==
    /\ dropped = {3}
    /\ next_id = 4
    /\ ticks # <<>>
    /\ ticks[1].again
    /\ ticks[1].before.out = "item"
    /\ ticks[1].out = "none"
    /\ last_content_hash = ticks[1].hash
    /\ content_queue = <<>>
    /\ c_pc = "poll"

(***************************************************************************)
(* Claims about a batch and the agent loop of its items, under SpecBatch.  *)
(***************************************************************************)
\* the ids of the items in a list
IdsOf(items) == {items[i].id : i \in 1..Len(items)}

\* C11: a worker that is in process_content_batch has passed every item before
\* its position to query_ai, the ones after a failed item too, and reaches
\* the end of the batch only when all were passed; it never leaves its loop.
C11_FailureKeepsBatchGoing ==
    \A w \in Workers :
        /\ w_pc[w] \in {"while", "get", "process", "for", "query_ai", "emit"}
        /\ w_pc[w] \in {"for", "query_ai", "emit"} =>
               \A i \in 1..Len(batch[w]) :
                   i < w_i[w] => Len(q_calls[batch[w][i].id]) = 1
        /\ w_pc[w] = "emit" => w_i[w] = Len(batch[w]) + 1

\* a batch of two is done: the first item failed, the second was answered
C11_Witness ==
    \E w \in Workers :
        /\ w_pc[w] = "emit"
        /\ Len(batch[w]) = 2
        /\ q_calls[batch[w][1].id] # <<>>
        /\ ~q_calls[batch[w][1].id][1].dict
        /\ q_calls[batch[w][2].id] # <<>>
        /\ q_calls[batch[w][2].id][1].dict
        /\ q_calls[batch[w][2].id][1].w = w

\* the workers that hold the item in their batch
Holders(id) == {w \in Workers : id \in IdsOf(batch[w])}

\* C26: a worker whose get_nowait finds the queue empty goes back to the head
\* of its loop with its batch as it was, and nothing else changes; every item
\* the collector enqueued is in the queue or in exactly one worker's batch,
\* where it stays until that worker, and no other, has run query_ai on it
\* once; and no batch holds more than batch_size items.
C26_EmptyRaceLosesNothing ==
    /\ [](\A w \in Workers : Len(batch[w]) <= batch_size)
    /\ [](\A id \in 1..(next_id - 1) :
              /\ Cardinality(InQueue(id)) + Cardinality(Holders(id)) = 1
                     \/ (InQueue(id) = {} /\ Holders(id) = {} /\ Len(chained[id]) = 1)
              /\ Len(chained[id]) <= 1
              /\ InQueue(id) # {} => chained[id] = <<>>
              /\ \A w \in Holders(id) :
                     /\ chained[id] \in {<<>>, <<w>>}
                     /\ w_pc[w] = "emit" => chained[id] = <<w>>)
    /\ [][\A w \in Workers :
              (w_pc[w] = "get" /\ w_pc'[w] # "get" /\ content_queue = <<>>) =>
                  /\ w_pc'[w] = "while"
                  /\ batch' = batch
                  /\ chained' = chained
                  /\ UNCHANGED <<content_queue, result_queue, q_calls, w_results>>]_vars
    /\ [][\A w \in Workers :
              (batch[w] # <<>> /\ batch'[w] # batch[w]) =>
                  \/ /\ w_pc[w] = "get"
                     /\ batch'[w] = Append(batch[w], Head(content_queue))
                  \/ /\ w_pc[w] = "emit"
                     /\ batch'[w] = <<>>]_vars

\* worker w holds the first item and stands at get_nowait after it saw the
\* queue non-empty; the other worker has taken the last item meanwhile
C26_Witness ==
    \E w, v \in Workers :
        /\ w # v
        /\ w_pc[w] = "get"
        /\ content_queue = <<>>
        /\ IdsOf(batch[w]) = {1}
        /\ IdsOf(batch[v]) = {2}

\* how many records of the item are on result_queue
Records(id) == Cardinality({i \in 1..Len(result_queue) : result_queue[i].id = id})

\* C27: with every worker scheduled again and again and every generation
\* call returning or raising, an item on content_queue is in the end out of
\* the queue and passed to query_ai, and an item whose query_ai call returned
\* its dict has in the end one record on result_queue, and never two.
C27_QueuedItemsGetProcessed ==
    /\ \A id \in 1..max_queue_size :
           (InQueue(id) # {}) ~> (InQueue(id) = {} /\ chained[id] # <<>>)
    /\ \A id \in 1..max_queue_size :
           (q_calls[id] # <<>> /\ q_calls[id][1].dict) ~> (Records(id) = 1)
    /\ [](\A id \in 1..max_queue_size : Records(id) <= 1)
    /\ [](\A id \in 1..max_queue_size :
              Records(id) = 1 => (q_calls[id] # <<>> /\ q_calls[id][1].dict))

\* both items were taken and passed to query_ai; the first was answered and
\* has its record on result_queue, the second failed; the workers are idle
C27_Witness ==
    /\ content_queue = <<>>
    /\ \A w \in Workers : w_pc[w] = "while" /\ batch[w] = <<>>
    /\ chained[1] # <<>>
    /\ chained[2] # <<>>
    /\ q_calls[1][1].dict
    /\ ~q_calls[2][1].dict
    /\ Records(1) = 1
    /\ Records(2) = 0
    /\ Len(result_queue) = 1

\* C15: query_ai is run once per item; a call in which query_ollama raised in
\* iteration i made exactly i generation calls (none after the failure, none
\* again) and left no record of the item in results or on result_queue; a
\* call in which nothing raised made all the calls and its item is recorded.
C15_FailedStepEndsItsChain ==
    \A id \in DOMAIN q_calls :
        /\ Len(q_calls[id]) <= 1
        /\ \A n \in 1..Len(q_calls[id]) :
               LET call == q_calls[id][n]
                   recorded == \/ id \in IdsOf(result_queue)
                               \/ id \in IdsOf(w_results[call.w])
               IN  IF call.dict
                   THEN /\ call.steps = Len(AgentIds)
                        /\ call.calls = Len(AgentIds)
                        /\ recorded
                   ELSE /\ call.steps < Len(AgentIds)
                        /\ call.calls = call.steps + 1
                        /\ ~recorded

\* one item failed in its second iteration, another one is on result_queue
C15_Witness ==
    \E a, b \in DOMAIN q_calls :
        /\ a # b
        /\ q_calls[a] # <<>>
        /\ ~q_calls[a][1].dict
        /\ q_calls[a][1].calls = 2
        /\ q_calls[b] # <<>>
        /\ q_calls[b][1].dict
        /\ IdsOf(result_queue) = {b}

(***************************************************************************)
(* Claims about the novelty tracker and the selector, under SpecNovelty.   *)
(* The score of the design is stated on its own here: a line with a ':' is *)
(* cut at its first ':' into a key and a value, both trimmed.              *)
(***************************************************************************)
ColonLines(text) == SelectSeq(Split(text, "\n"), LAMBDA line : Contains(line, ":"))
FirstColon(line) == SetMin({i \in 1..Len(line) : Char(line, i) = ":"})
KeyOf(line) == Strip(SubSeq(line, 1, FirstColon(line) - 1))
ValueOf(line) == Strip(SubSeq(line, FirstColon(line) + 1, Len(line)))

\* the <<key, value>> pairs of each text the tracker is given, computed once
DesignPairs ==
    [text \in TrackerTexts |->
        LET lines == ColonLines(text)
        IN  [i \in 1..Len(lines) |-> <<KeyOf(lines[i]), ValueOf(lines[i])>>]]

\* the mean of 1 / (frequency + 1) over the keys and the values of the text,
\* 0 when it has no pair
DesignScore(key_freq, value_freq, text) ==
    LET pairs == DesignPairs[text]
        parts == [i \in 1..(2 * Len(pairs)) |->
                     IF i <= Len(pairs)
                     THEN Frac(1, Freq(key_freq, pairs[i][1]) + 1)
                     ELSE Frac(1, Freq(value_freq, pairs[i - Len(pairs)][2]) + 1)]
    IN  IF pairs = <<>> THEN Frac(0, 1) ELSE FracDiv(FracSum(parts), Len(parts))

\* the first of the indices that hold the highest score
FirstBest(scores) ==
    SetMin({i \in 1..Len(scores) :
               \A j \in 1..Len(scores) : FracLeq(scores[j], scores[i])})

CurrentScore(text) == get_novelty_score(key_frequency, value_frequency, text)

\* C6: when all three candidates were generated, query_ollama returns the
\* candidate with the highest final score, the first of them on a tie.
C6_SelectsHighestScore ==
    (LastOp = "query_ollama" /\ ~nt_last[1].failed) =>
        LET cands == nt_last[1].responses
            scores == [i \in 1..Len(cands) |->
                          final_score(novelty_weight,
                              DesignScore(key_frequency, value_frequency, cands[i]))]
        IN  nt_last[1].result = cands[FirstBest(scores)]

\* C7: with weight 1.0 and nothing observed, the three candidates python, go,
\* python all score 1 and the first is picked; once add_response has counted
\* the python candidate, python scores 1/2, go scores 3/4 and go, the second,
\* is picked.
C7_Scenario ==
    LET asked == /\ LastOp = "query_ollama"
                 /\ ~nt_last[1].failed
                 /\ nt_last[1].responses = <<PythonText, GoText, PythonText>>
                 /\ novelty_weight = 10
    IN  /\ (asked /\ n_observe = 0) =>
              /\ CurrentScore(PythonText) = [n |-> 1, d |-> 1]
              /\ CurrentScore(GoText) = [n |-> 1, d |-> 1]
              /\ nt_last[1].index = 1
              /\ nt_last[1].result = PythonText
        /\ (asked /\ n_observe = 1 /\ response_history = << <<Entry(PythonText)>> >>) =>
              /\ CurrentScore(PythonText) = [n |-> 1, d |-> 2]
              /\ CurrentScore(GoText) = [n |-> 3, d |-> 4]
              /\ nt_last[1].index = 2
              /\ nt_last[1].result = GoText

\* the second selection of the scenario has been made
C7_Witness ==
    /\ LastOp = "query_ollama"
    /\ ~nt_last[1].failed
    /\ nt_last[1].responses = <<PythonText, GoText, PythonText>>
    /\ novelty_weight = 10
    /\ n_observe = 1
    /\ response_history = << <<Entry(PythonText)>> >>
    /\ nt_last[1].result = GoText

\* C8: an add_response call leaves the frequency of every key and of every
\* value of the ':'-lines of the texts it was given strictly higher.
C8_ObserveRaisesEveryFrequency ==
    [][n_observe' = n_observe + 1 =>
          LET response_dict == nt_last'[1].response_dict
          IN  \A e \in 1..Len(response_dict) :
                  "response" \in DOMAIN response_dict[e] =>
                      LET pairs == DesignPairs[response_dict[e].response]
                      IN  \A i \in 1..Len(pairs) :
                              /\ Freq(key_frequency', pairs[i][1])
                                   > Freq(key_frequency, pairs[i][1])
                              /\ Freq(value_frequency', pairs[i][2])
                                   > Freq(value_frequency, pairs[i][2])]_vars

\* C9: no step raises the novelty score of any candidate text that
\* get_novelty_score scores, so after any add_response calls a text scores at
\* most what it scored before them.
C9_ScoreNeverRises ==
    [][\A text \in NovelTexts :
          ~RaisesValueError(Pairs(text)) =>
              FracLeq(get_novelty_score(key_frequency', value_frequency', text),
                      get_novelty_score(key_frequency, value_frequency, text))]_vars

\* the python candidate was observed twice and now scores below 1/2
C9_Witness ==
    /\ LastOp = "add_response"
    /\ n_observe = 2
    /\ nt_last[1].response_dict = <<Entry(PythonText)>>
    /\ Freq(key_frequency, "lang") >= 2
    /\ FracLess(CurrentScore(PythonText), Frac(1, 2))

\* C19: add_response returns without raising, and from every text with a
\* 'response' it counts, for each line with a ':', the text before the first
\* ':' as the key and the text after it as the value.
C19_SplitsAtFirstColon ==
    LastOp = "add_response" =>
        /\ ~nt_last[1].raised
        /\ \A e \in 1..Len(nt_last[1].response_dict) :
               "response" \in DOMAIN nt_last[1].response_dict[e] =>
                   LET text == nt_last[1].response_dict[e].response
                   IN  /\ Len(Pairs(text)) = Len(DesignPairs[text])
                       /\ \A i \in 1..Len(Pairs(text)) :
                              /\ Unpacks(Pairs(text)[i])
                              /\ Strip(Pairs(text)[i][1]) = DesignPairs[text][i][1]
                              /\ Strip(Pairs(text)[i][2]) = DesignPairs[text][i][2]

\* the keys and values counted from a record of the history
RecordPairs(record) == Unpacked(DictPairs(record))

\* C20: no step lowers a count of key_frequency or value_frequency, and a
\* step that pushes the oldest record out of a full response_history leaves
\* the counts of that record's keys and values at least as high as they
\* were, and as they were for those the new record does not hold.
C20_CountsNeverFall ==
    [][/\ \A k \in DOMAIN key_frequency :
              Freq(key_frequency', k) >= key_frequency[k]
       /\ \A v \in DOMAIN value_frequency :
              Freq(value_frequency', v) >= value_frequency[v]
       /\ (Len(response_history) = history_size
             /\ response_history' # response_history) =>
              LET evicted == RecordPairs(Head(response_history))
                  added == RecordPairs(response_history'[Len(response_history')])
              IN  \A i \in 1..Len(evicted) :
                      LET k == Strip(evicted[i][1])
                          v == Strip(evicted[i][2])
                      IN  /\ Freq(key_frequency', k) >= Freq(key_frequency, k)
                          /\ Freq(key_frequency, k) >= 1
                          /\ Freq(value_frequency', v) >= Freq(value_frequency, v)
                          /\ Freq(value_frequency, v) >= 1
                          /\ (\A j \in 1..Len(added) : Strip(added[j][1]) # k) =>
                                 Freq(key_frequency', k) = Freq(key_frequency, k)
                          /\ (\A j \in 1..Len(added) : Strip(added[j][2]) # v) =>
                                 Freq(value_frequency', v) = Freq(value_frequency, v)]_vars

\* the python record was pushed out by the go record and is still counted
C20_Witness ==
    /\ LastOp = "add_response"
    /\ n_observe = 2
    /\ response_history = << <<Entry(GoText)>> >>
    /\ Freq(key_frequency, "lang") = 2
    /\ Freq(value_frequency, "python") = 1
    /\ Freq(value_frequency, "pyperclip") = 1

(***************************************************************************)
(* Claims about the agent loop over the selector, under SpecTracked.       *)
(***************************************************************************)
\* C12: when client.generate raised before query_ollama had any candidate,
\* the agent loop stores no output for that iteration and query_ai is over.
C12_GenerationFailureIsSurfaced ==
    (LastOp = "query_ollama" /\ nt_last[1].failed /\ nt_last[1].attempts = 0) =>
        /\ Len(agents_thoughts) < nt_last[1].step
        /\ qa_pc = "returned"

\* C16: when an iteration after the first has made its selection, the
\* selection of the iteration before it is in the record add_response
\* appended last to response_history.
C16_ObservedBeforeNextSelection ==
    (LastOp = "query_ollama" /\ nt_last[1].step >= 2) =>
        /\ response_history # <<>>
        /\ LET observed == response_history[Len(response_history)]
           IN  \E e \in 1..Len(observed) :
                   observed[e].response = agents_thoughts[nt_last[1].step - 1]

(***************************************************************************)
(* Claims about the threads on the tracker and the locks, under SpecShared.*)
(***************************************************************************)
\* thread v is in add_response with some of its counts made and the call not
\* yet over
Partway(v) ==
    /\ v \in tracker_lock
    /\ ~(t_pc[v] = "for"
           /\ Len(t_todo[v].pairs) = Len(DictPairs(t_todo[v].dict)))

\* C17: no worker scores a candidate set while another worker is partway
\* through add_response.
C17_ScoresSeeWholeUpdates ==
    [][\A w \in SharedWorkers :
          (t_pc[w] = "score" /\ t_pc'[w] = "idle") =>
              \A v \in SharedWorkers \ {w} : ~Partway(v)]_vars

\* C18: a worker that is waiting in client.generate holds neither
\* novelty_tracker.lock nor clipboard_lock; a thread that holds the tracker's
\* lock is in the counting loop of add_response, and only the collector
\* holds clipboard_lock.
C18_NoLockWhileGenerating ==
    \A w \in SharedWorkers :
        t_pc[w] = "generate" =>
            /\ w \notin tracker_lock
            /\ w \notin clipboard_lock
            /\ \A h \in tracker_lock : t_pc[h] \in {"for", "value"}
            /\ clipboard_lock \subseteq {CollectorThread}

\* a worker waits in client.generate while the other one holds the tracker's
\* lock and the collector holds clipboard_lock
C18_Witness ==
    /\ t_pc[1] = "generate"
    /\ tracker_lock = {2}
    /\ clipboard_lock = {CollectorThread}

(***************************************************************************)
(* Claims about the whole program and what it reports, under SpecMain.     *)
(***************************************************************************)
\* C22, the part about the workers: once a KeyboardInterrupt has been raised
\* in main, no worker runs query_ai on a further item.
C22_NoChainAfterInterrupt ==
    [][m_raised # <<>> => chained' = chained]_vars

\* the item went through query_ai and no result was made for it
FailedChain(id) ==
    /\ chained[id] # <<>>
    /\ \A w \in Workers : w_pc[w] = "process" => id \notin {batch[w][i].id : i \in 1..Len(batch[w])}
    /\ \A i \in 1..Len(result_queue) : result_queue[i].id # id
    /\ Line("Content Processed", id) \notin log_file

\* C23: for every item given up because the queue was full, and for every
\* item whose query_ai call failed, a line about that item is on stdout or
\* in the log file.
C23_DropsAndFailuresAreReported ==
    \A id \in 1..MaxItems :
        (id \in dropped \/ FailedChain(id)) =>
            \E e \in stdout \cup log_file : e.id = id

LinesOf(text) == Split(text, "\n")

\* every line of the text has a ':' and no surrounding whitespace
AllKeyValueLines(text) ==
    LET lines == LinesOf(text)
    IN  \A n \in 1..Len(lines) :
            /\ Contains(lines[n], ":")
            /\ Strip(lines[n]) = lines[n]

\* C5 as stated: the prompt of every later agent contains each earlier agent's
\* truncated output verbatim, whatever that output is.
C5_PromptHoldsOutputsVerbatim ==
    \A j \in 1..Len(qa_prompts) : \A i \in 1..(j - 1) :
        IsSubstring(final_response[i].response, qa_prompts[j])

\* C5 as amended: the prompt of every later agent contains, for each earlier
\* agent, the agent's id as a label followed by the stripped ':'-lines of its
\* truncated output, in order; so the truncated output is there verbatim when
\* all its lines have a ':' and no surrounding whitespace.
C5_PromptHoldsKeyValueLines ==
    \A j \in 1..Len(qa_prompts) : \A i \in 1..(j - 1) :
        LET out == final_response[i].response
            kept == SelectSeq(LinesOf(out), LAMBDA line : Contains(line, ":"))
            block == AgentIds[i] \o ":\n"
                       \o Join([n \in 1..Len(kept) |-> Strip(kept[n])], "\n")
        IN  /\ IsSubstring(block, qa_prompts[j])
            /\ AllKeyValueLines(out) => IsSubstring(out, qa_prompts[j])
            /\ final_response[j].previous_thoughts
                 = format_previous_thoughts(SubSeq(agents_thoughts, 1, j - 1))

\* a full chain whose first output is all key-value lines and whose second
\* output has a line without ':'
C5_Witness ==
    /\ Len(qa_prompts) = 3
    /\ final_response[1].response = "lang: go\nlib: none"
    /\ final_response[2].response = "Sure, here you go\nowner: alice"
    /\ ~IsSubstring(final_response[2].response, qa_prompts[3])

====
